---- MODULE Spec2Model ----
(***************************************************************************)
(* lc: the recursive line/byte counting traversals of src/main.rs.         *)
(*                                                                         *)
(* A directory tree is a finite set of paths.  Path n has parent n \div 2, *)
(* path 1 is the directory the traversal is started on, and among siblings *)
(* the order of the numbers is the lexicographic order of the paths.       *)
(* Each run applies one traversal strategy to the tree; a later run on the *)
(* same, unchanged tree remembers the outcome of the run before it.        *)
(***************************************************************************)
EXTENDS Integers, Sequences, FiniteSets, TLC

\* Bounds of the model.
MaxNodes == 5
MaxLen == 2
MaxUnits == 3

Root == 1
Nodes == 1..MaxNodes

Parent(n) == n \div 2
Children(d) == {n \in Nodes : n # Root /\ Parent(n) = d}

VARIABLES
    fs,           \* the tree: per path its kind, whether it can be read, its raw bytes
    rev,          \* the order fs::read_dir lists entries in (FALSE: ascending)
    root_named,   \* whether the root path ends in a normal component (not ".", "..", "/")
    strategy,     \* the traversal function this run calls
    byte_toggle,  \* linecount's byte_toggle argument
    pc,           \* per directory: where its invocation (and its thread) is
    idx,          \* per directory: position in the entry loop, then in the join loop
    total_lines,  \* per invocation: its total_lines (local, or behind the mutex)
    total_bytes,  \* per invocation: its total_bytes
    lines_locked, \* per invocation: its total_lines mutex is held
    bytes_locked, \* per invocation: its total_bytes mutex is held
    handles,      \* per invocation: the JoinHandles pushed so far
    joined,       \* per invocation: how many of them it has joined
    res,          \* per invocation: what it returned
    out,          \* lines printed to stdout
    err,          \* lines printed to stderr
    exit,         \* how the process ended
    prev,         \* the outcome of the previous run on this tree
    cli,          \* the flags on main's command line
    arg,          \* the argument of a formatting or classifying function
    shown         \* what that function returned

vars == <<fs, rev, root_named, strategy, byte_toggle, pc, idx, total_lines,
          total_bytes, lines_locked, bytes_locked, handles, joined, res, out,
          err, exit, prev, cli, arg, shown>>

input == <<fs, rev, root_named>>

-----------------------------------------------------------------------------
\* File contents and the two per-file counts.

\* Raw bytes: "nl" is 0x0A, "ch" any other ASCII byte, "bad" a byte that is
\* not valid UTF-8.
Pattern == <<"nl", "bad", "ch">>
Prefix(k) == [i \in 1..k |-> Pattern[((i - 1) % 3) + 1]]
Contents == {Prefix(k) : k \in 0..MaxLen}

\* String::from_utf8_lossy: every invalid byte becomes U+FFFD.
from_utf8_lossy(raw) == [i \in 1..Len(raw) |-> IF raw[i] = "bad" THEN "rep" ELSE raw[i]]

\* str::lines().count(): the text is cut at every newline and a last, empty
\* piece is not a line.
RECURSIVE CountNl(_)
CountNl(s) == IF s = <<>> THEN 0
              ELSE (IF Head(s) = "nl" THEN 1 ELSE 0) + CountNl(Tail(s))
lines_count(s) == CountNl(s) + (IF s # <<>> /\ s[Len(s)] # "nl" THEN 1 ELSE 0)

\* str::as_bytes().len(): U+FFFD is three bytes in UTF-8.
RECURSIVE bytes_len(_)
bytes_len(s) == IF s = <<>> THEN 0
                ELSE (IF Head(s) = "rep" THEN 3 ELSE 1) + bytes_len(Tail(s))

file_linecount(n) == lines_count(from_utf8_lossy(fs[n].data))
file_bytes(n) == bytes_len(from_utf8_lossy(fs[n].data))

-----------------------------------------------------------------------------
\* The tree.

File(c) == [kind |-> "file", ok |-> TRUE, data |-> c]
Dir == [kind |-> "dir", ok |-> TRUE, data |-> <<>>]
NoEntry == [kind |-> "none", ok |-> TRUE, data |-> <<>>]
\* What a path can be: nothing, a regular file (readable or not), a directory
\* (listable or not), a socket or fifo, or a name fs::metadata fails on (a
\* dangling symlink).
EntryChoices ==
    {NoEntry, Dir, [Dir EXCEPT !.ok = FALSE],
     [kind |-> "other", ok |-> TRUE, data |-> <<>>],
     [kind |-> "broken", ok |-> TRUE, data |-> <<>>],
     [kind |-> "file", ok |-> FALSE, data |-> <<>>]}
    \cup {File(c) : c \in Contents}

\* Only a directory that can be listed shows entries, and the root is a
\* directory (that cannot be listed when it does not exist).
WellFormed(t) ==
    /\ t[Root].kind = "dir"
    /\ \A n \in Nodes \ {Root} :
          (t[Parent(n)].kind # "dir" \/ ~t[Parent(n)].ok) => t[n] = NoEntry

Trees == {t \in [Nodes -> EntryChoices] : WellFormed(t)}

\* The paths of S in ascending order.
SortAsc(S) == SelectSeq([i \in 1..MaxNodes |-> i], LAMBDA x : x \in S)

Reverse(s) == [i \in 1..Len(s) |-> s[Len(s) + 1 - i]]
Range(s) == {s[i] : i \in 1..Len(s)}

\* fs::read_dir(dir).map(|e| e.path()).collect(): the entries, in the order
\* the file system gives them.
read_dir(d) ==
    LET present == {n \in Children(d) : fs[n].kind # "none"}
    IN  IF rev THEN Reverse(SortAsc(present)) ELSE SortAsc(present)

\* Faulty variant: A listing that fails is taken for an empty one.
can_list_or_empty(d) == TRUE

\* Whether fs::read_dir(d) succeeds.
can_list(d) == fs[d].ok

\* Faulty variant: whatever is not a regular file counts as a directory.
is_not_file(n) == fs[n].kind \in {"dir", "other"}

is_file(n) == fs[n].kind = "file"
is_dir(n) == fs[n].kind = "dir"

\* Faulty variant: The files are chained with the whole listing, not with dirs.
sorted_entries_twice(d) ==
    LET files == SortAsc({n \in Range(read_dir(d)) : is_file(n)})
    IN  files \o SortAsc(Range(read_dir(d)))

\* Faulty variant: The directories come before the files.
sorted_entries_dirs_first(d) ==
    LET files == SortAsc({n \in Range(read_dir(d)) : is_file(n)})
        dirs == SortAsc({n \in Range(read_dir(d)) : ~is_file(n)})
    IN  dirs \o files

\* Faulty variant: the listing is walked as it is, ascending, files and
\* directories mixed.
sorted_entries_mixed(d) == SortAsc(Range(read_dir(d)))

\* files.sort(); dirs.sort(); files.iter().chain(dirs.iter()), where every
\* entry that is not a regular file went to dirs.
sorted_entries(d) ==
    LET files == SortAsc({n \in Range(read_dir(d)) : is_file(n)})
        dirs == SortAsc({n \in Range(read_dir(d)) : ~is_file(n)})
    IN  files \o dirs

Concurrent == {"linecount_async", "linecount_visual_async"}
Strategies == {"linecount", "linecount_display"} \cup Concurrent

\* The two functions that print the tree; both sort the listing.
Visual == {"linecount_display", "linecount_visual_async"}

\* The entries one invocation loops over.
Entries(d) == IF strategy \in Visual THEN sorted_entries(d)
              ELSE read_dir(d)

\* main's command line: whether --test-async and --display (-d) are given.
Flags == [test_async : BOOLEAN, display : BOOLEAN]

\* No command line: the function is called directly.
NoCli == [test_async |-> FALSE, display |-> FALSE, direct |-> TRUE]

\* main: if calls.contains_id("test-async") .. else if
\* calls.contains_id("display") .. else ..
main_strategy(c) ==
    IF c.test_async THEN "linecount_visual_async"
    ELSE IF c.display THEN "linecount_display"
    ELSE "linecount_async"

-----------------------------------------------------------------------------
\* Results.

NoRes == [st |-> "none", lines |-> 0, bytes |-> 0]
Ok(l, b) == [st |-> "ok", lines |-> l, bytes |-> b]
Err == [st |-> "err", lines |-> 0, bytes |-> 0]
Panic == [st |-> "panic", lines |-> 0, bytes |-> 0]

NoPrev == [strategy |-> "none", res |-> NoRes, out |-> <<>>]

\* The state a run starts in.
StartPc == [n \in Nodes |-> IF n = Root THEN "start" ELSE "idle"]
Zero == [n \in Nodes |-> 0]
Unlocked == [n \in Nodes |-> FALSE]
NoHandles == [n \in Nodes |-> <<>>]
NoResults == [n \in Nodes |-> NoRes]

\* Arguments and inputs the chosen function never reads are left at one value:
\* only linecount has a byte_toggle, only the functions that print the tree
\* take the name of the root path, and they sort the listing, whose order
\* they therefore never see.
Canonical(s, bt) ==
    /\ s # "linecount" => bt = TRUE
    /\ s \notin Visual => root_named
    /\ s \in Visual => ~rev

\* Nothing formatted or classified yet.
NoArg == [fn |-> "none"]
NoShown == [tag |-> "none"]

Init ==
    /\ fs \in Trees
    /\ rev \in BOOLEAN
    /\ root_named \in BOOLEAN
    /\ cli \in Flags \cup {NoCli}
    /\ strategy = (IF cli = NoCli THEN "linecount" ELSE main_strategy(cli))
    /\ byte_toggle \in BOOLEAN
    /\ Canonical(strategy, byte_toggle)
    /\ arg = NoArg
    /\ shown = NoShown
    /\ prev = NoPrev
    /\ pc = StartPc
    /\ idx = Zero
    /\ total_lines = Zero
    /\ total_bytes = Zero
    /\ lines_locked = Unlocked
    /\ bytes_locked = Unlocked
    /\ handles = NoHandles
    /\ joined = Zero
    /\ res = NoResults
    /\ out = <<>>
    /\ err = <<>>
    /\ exit = "running"

-----------------------------------------------------------------------------
\* linecount: the sequential walker.  One thread, so an invocation that
\* returns hands its result to the caller's match in the same step.

\* Ok(success) => total_lines += linecount.0; total_bytes += linecount.1
LcChildOk(p, c, r) ==
    /\ total_lines' = [total_lines EXCEPT ![p] = @ + r.lines]
    /\ total_bytes' = [total_bytes EXCEPT ![p] = @ + r.bytes]
    /\ pc' = [pc EXCEPT ![c] = "done", ![p] = "loop"]
    /\ idx' = [idx EXCEPT ![p] = @ + 1]
    /\ res' = [res EXCEPT ![c] = r]
    /\ err' = err

\* Faulty variant: what the failed call had counted so far is kept.
LcChildErrPartial(p, c) ==
    /\ err' = Append(err, [kind |-> "skip", node |-> c])
    /\ pc' = [pc EXCEPT ![c] = "done", ![p] = "loop"]
    /\ idx' = [idx EXCEPT ![p] = @ + 1]
    /\ res' = [res EXCEPT ![c] = Err]
    /\ total_lines' = [total_lines EXCEPT ![p] = @ + total_lines[c]]
    /\ total_bytes' = [total_bytes EXCEPT ![p] = @ + total_bytes[c]]

\* Faulty variant: The failed subdirectory is skipped without a diagnostic.
LcChildErrSilent(p, c) ==
    /\ err' = err
    /\ pc' = [pc EXCEPT ![c] = "done", ![p] = "loop"]
    /\ idx' = [idx EXCEPT ![p] = @ + 1]
    /\ res' = [res EXCEPT ![c] = Err]
    /\ UNCHANGED <<total_lines, total_bytes>>

\* Err(err) => { eprintln!("{err}: skipping {:?}", ..); continue; }
LcChildErr(p, c) ==
    /\ err' = Append(err, [kind |-> "skip", node |-> c])
    /\ pc' = [pc EXCEPT ![c] = "done", ![p] = "loop"]
    /\ idx' = [idx EXCEPT ![p] = @ + 1]
    /\ res' = [res EXCEPT ![c] = Err]
    /\ UNCHANGED <<total_lines, total_bytes>>

\* Invocation d of linecount returns r.
LcReturn(d, r) ==
    IF d = Root
    THEN /\ pc' = [pc EXCEPT ![d] = "done"]
         /\ res' = [res EXCEPT ![d] = r]
         /\ UNCHANGED <<idx, total_lines, total_bytes, err>>
    ELSE IF r.st = "ok" THEN LcChildOk(Parent(d), d, r)
         ELSE LcChildErr(Parent(d), d)

\* let directory_entries = fs::read_dir(dir_path)?;
LcStart(d) ==
    /\ strategy = "linecount"
    /\ pc[d] = "start"
    /\ IF can_list(d)
       THEN /\ pc' = [pc EXCEPT ![d] = "loop"]
            /\ idx' = [idx EXCEPT ![d] = 1]
            /\ UNCHANGED <<total_lines, total_bytes, res, err>>
       ELSE LcReturn(d, Err)
    /\ UNCHANGED <<input, cli, arg, shown, strategy, byte_toggle, lines_locked, bytes_locked,
                   handles, out, exit, prev, joined>>

\* One pass of the for loop over directory_entries.
LcEntry(d) ==
    /\ strategy = "linecount"
    /\ pc[d] = "loop"
    /\ idx[d] <= Len(Entries(d))
    /\ LET e == Entries(d)[idx[d]]
       IN  CASE fs[e].kind = "broken" -> LcReturn(d, Err)
             [] is_file(e) /\ ~fs[e].ok -> LcReturn(d, Err)
             [] is_file(e) /\ fs[e].ok ->
                  /\ total_lines' = [total_lines EXCEPT ![d] = @ + file_linecount(e)]
                  /\ total_bytes' = [total_bytes EXCEPT ![d] =
                                        IF byte_toggle THEN @ + file_bytes(e) ELSE @]
                  /\ idx' = [idx EXCEPT ![d] = @ + 1]
                  /\ UNCHANGED <<pc, res, err>>
             [] is_dir(e) ->
                  /\ pc' = [pc EXCEPT ![d] = "call", ![e] = "start"]
                  /\ UNCHANGED <<idx, total_lines, total_bytes, res, err>>
             [] OTHER ->
                  /\ idx' = [idx EXCEPT ![d] = @ + 1]
                  /\ UNCHANGED <<pc, total_lines, total_bytes, res, err>>
    /\ UNCHANGED <<input, cli, arg, shown, strategy, byte_toggle, lines_locked, bytes_locked,
                   handles, out, exit, prev, joined>>

\* Ok((total_lines, total_bytes))
LcFinish(d) ==
    /\ strategy = "linecount"
    /\ pc[d] = "loop"
    /\ idx[d] > Len(Entries(d))
    /\ LcReturn(d, Ok(total_lines[d], total_bytes[d]))
    /\ UNCHANGED <<input, cli, arg, shown, strategy, byte_toggle, lines_locked, bytes_locked,
                   handles, out, exit, prev, joined>>

-----------------------------------------------------------------------------
\* linecount_async and linecount_visual_async: one thread per subdirectory.
\* The thread of directory d runs d's invocation and then adds what it
\* returned to the counters of the invocation that spawned it.  The root's
\* invocation runs on the main thread.

\* Faulty variant: The closure forgets to add what the recursion returned.
AfterReturnDropped(d, r) == IF d = Root THEN "done" ELSE "finished"

\* What the thread does once its invocation has returned r: the closure's
\* "if let Ok((lines, bytes)) = recursive_lc", then the end of the thread.
AfterReturn(d, r) ==
    IF d = Root THEN "done"
    ELSE IF r.st = "ok" THEN "merge_lines" ELSE "finished"

\* The invocation of d returns Err through a "?": its JoinHandles are
\* dropped unjoined.
ReturnErr(d) ==
    /\ res' = [res EXCEPT ![d] = Err]
    /\ pc' = [pc EXCEPT ![d] = AfterReturn(d, Err)]

\* A panic on the thread of d: the panic hook writes its message to stderr
\* and the thread unwinds.
Panics(d) ==
    /\ res' = [res EXCEPT ![d] = Panic]
    /\ pc' = [pc EXCEPT ![d] = "panicked"]
    /\ err' = Append(err, [kind |-> "panic", node |-> d])

\* dir_path.file_name().unwrap(): None for a path ending in ".", ".." or "/".
\* The paths read_dir yields always end in a name.
file_name_is_some(d) == d # Root \/ root_named

\* From the start of the function to the for loop: in the visual walker
\* the header line, in both fs::read_dir(dir_path).expect(..).
Enter(d) ==
    /\ strategy \in Concurrent
    /\ exit = "running"
    /\ pc[d] = "start"
    /\ IF strategy = "linecount_visual_async" /\ ~file_name_is_some(d)
       THEN Panics(d) /\ UNCHANGED <<out, idx>>
       ELSE /\ out' = IF strategy = "linecount_visual_async"
                      THEN Append(out, [kind |-> "header", node |-> d])
                      ELSE out
            /\ IF can_list(d)
               THEN /\ pc' = [pc EXCEPT ![d] = "loop"]
                    /\ idx' = [idx EXCEPT ![d] = 1]
                    /\ UNCHANGED <<res, err>>
               ELSE Panics(d) /\ UNCHANGED idx
    /\ UNCHANGED <<input, cli, arg, shown, strategy, byte_toggle, total_lines, total_bytes,
                   lines_locked, bytes_locked, handles, exit, prev, joined>>

\* One pass of the for loop up to the first lock: fs::metadata(path)?, and
\* then fs::read(&path)? for a file, thread::spawn for a directory.
Entry(d) ==
    /\ strategy \in Concurrent
    /\ exit = "running"
    /\ pc[d] = "loop"
    /\ idx[d] <= Len(Entries(d))
    /\ LET e == Entries(d)[idx[d]]
       IN  CASE fs[e].kind = "broken" -> ReturnErr(d) /\ UNCHANGED <<idx, handles>>
             [] is_file(e) /\ ~fs[e].ok -> ReturnErr(d) /\ UNCHANGED <<idx, handles>>
             [] is_file(e) /\ fs[e].ok ->
                  /\ pc' = [pc EXCEPT ![d] = "add_lines"]
                  /\ UNCHANGED <<idx, handles, res>>
             [] is_dir(e) ->
                  /\ pc' = [pc EXCEPT ![e] = "start"]
                  /\ handles' = [handles EXCEPT ![d] = Append(@, e)]
                  /\ idx' = [idx EXCEPT ![d] = @ + 1]
                  /\ UNCHANGED res
             [] OTHER ->
                  /\ idx' = [idx EXCEPT ![d] = @ + 1]
                  /\ UNCHANGED <<pc, handles, res>>
    /\ UNCHANGED <<input, cli, arg, shown, strategy, byte_toggle, total_lines, total_bytes,
                   lines_locked, bytes_locked, out, err, exit, prev, joined>>

\* Faulty variant: the line count of the file is added twice.
AddLinesTwice(d) ==
    /\ strategy \in Concurrent
    /\ exit = "running"
    /\ pc[d] = "add_lines"
    /\ ~lines_locked[d]
    /\ total_lines' = [total_lines EXCEPT ![d] = @ + 2 * file_linecount(Entries(d)[idx[d]])]
    /\ pc' = [pc EXCEPT ![d] = "add_bytes"]
    /\ UNCHANGED <<input, cli, arg, shown, strategy, byte_toggle, idx, total_bytes,
                   lines_locked, bytes_locked, handles, res, out, err, exit, prev,
                   joined>>

\* *total_lines.lock().unwrap() += file_linecount;
AddLines(d) ==
    /\ strategy \in Concurrent
    /\ exit = "running"
    /\ pc[d] = "add_lines"
    /\ ~lines_locked[d]
    /\ total_lines' = [total_lines EXCEPT ![d] = @ + file_linecount(Entries(d)[idx[d]])]
    /\ pc' = [pc EXCEPT ![d] = "add_bytes"]
    /\ UNCHANGED <<input, cli, arg, shown, strategy, byte_toggle, idx, total_bytes, lines_locked,
                   bytes_locked, handles, res, out, err, exit, prev, joined>>

\* *total_bytes.lock().unwrap() += file_bytes;
AddBytes(d) ==
    /\ strategy \in Concurrent
    /\ exit = "running"
    /\ pc[d] = "add_bytes"
    /\ ~bytes_locked[d]
    /\ total_bytes' = [total_bytes EXCEPT ![d] = @ + file_bytes(Entries(d)[idx[d]])]
    /\ IF strategy = "linecount_visual_async"
       THEN pc' = [pc EXCEPT ![d] = "print"] /\ idx' = idx
       ELSE pc' = [pc EXCEPT ![d] = "loop"] /\ idx' = [idx EXCEPT ![d] = @ + 1]
    /\ UNCHANGED <<input, cli, arg, shown, strategy, byte_toggle, total_lines, lines_locked,
                   bytes_locked, handles, res, out, err, exit, prev, joined>>

\* println!("{formatted_indent}{formatted_output}") of the visual walker.
PrintFile(d) ==
    /\ strategy = "linecount_visual_async"
    /\ exit = "running"
    /\ pc[d] = "print"
    /\ LET e == Entries(d)[idx[d]]
       IN  out' = Append(out, [kind |-> "file", node |-> e])
    /\ pc' = [pc EXCEPT ![d] = "loop"]
    /\ idx' = [idx EXCEPT ![d] = @ + 1]
    /\ UNCHANGED <<input, cli, arg, shown, strategy, byte_toggle, total_lines, total_bytes,
                   lines_locked, bytes_locked, handles, res, err, exit, prev, joined>>

\* Faulty variant: The handles are not waited for.
EndedOrNot(h) == TRUE

\* Faulty variant: join returns once the thread has added its lines.
EndedAfterLines(h) == pc[h] \in {"merge_bytes", "finished", "panicked"}

\* handle.join() returns once the thread has ended.
Ended(h) == pc[h] \in {"finished", "panicked"}

\* The for loop over the entries is over: "for handle in handles" runs.
AtJoin(d) == pc[d] = "loop" /\ idx[d] > Len(Entries(d))

\* handle.join().unwrap(): join gives Err for a thread that panicked, and
\* unwrap panics on it.
Join(d) ==
    /\ strategy \in Concurrent
    /\ exit = "running"
    /\ AtJoin(d)
    /\ joined[d] < Len(handles[d])
    /\ LET h == handles[d][joined[d] + 1]
       IN  /\ Ended(h)
           /\ IF pc[h] = "panicked"
              THEN Panics(d) /\ UNCHANGED joined
              ELSE /\ joined' = [joined EXCEPT ![d] = @ + 1]
                   /\ UNCHANGED <<pc, res, err>>
    /\ UNCHANGED <<input, cli, arg, shown, strategy, byte_toggle, idx, total_lines, total_bytes,
                   lines_locked, bytes_locked, handles, out, exit, prev>>

\* get_totals: let lines = total_lines.lock().unwrap();
GetTotalsLines(d) ==
    /\ strategy \in Concurrent
    /\ exit = "running"
    /\ AtJoin(d)
    /\ joined[d] = Len(handles[d])
    /\ ~lines_locked[d]
    /\ lines_locked' = [lines_locked EXCEPT ![d] = TRUE]
    /\ pc' = [pc EXCEPT ![d] = "get_totals"]
    /\ UNCHANGED <<input, cli, arg, shown, strategy, byte_toggle, idx, total_lines, total_bytes,
                   bytes_locked, handles, res, out, err, exit, prev, joined>>

\* Faulty variant: the guard on total_lines outlives get_totals.
GetTotalsBytesKeepsGuard(d) ==
    /\ strategy \in Concurrent
    /\ exit = "running"
    /\ pc[d] = "get_totals"
    /\ ~bytes_locked[d]
    /\ UNCHANGED <<lines_locked, bytes_locked>>
    /\ res' = [res EXCEPT ![d] = Ok(total_lines[d], total_bytes[d])]
    /\ pc' = [pc EXCEPT ![d] = AfterReturn(d, Ok(total_lines[d], total_bytes[d]))]
    /\ UNCHANGED <<input, cli, arg, shown, strategy, byte_toggle, idx, total_lines,
                   total_bytes, handles, out, err, exit, prev, joined>>

\* get_totals: let bytes = total_bytes.lock().unwrap(); (*lines, *bytes),
\* both guards dropped at the end; linecount_async returns Ok of the pair.
GetTotalsBytes(d) ==
    /\ strategy \in Concurrent
    /\ exit = "running"
    /\ pc[d] = "get_totals"
    /\ ~bytes_locked[d]
    /\ lines_locked' = [lines_locked EXCEPT ![d] = FALSE]
    /\ bytes_locked' = bytes_locked
    /\ res' = [res EXCEPT ![d] = Ok(total_lines[d], total_bytes[d])]
    /\ pc' = [pc EXCEPT ![d] = AfterReturn(d, Ok(total_lines[d], total_bytes[d]))]
    /\ UNCHANGED <<input, cli, arg, shown, strategy, byte_toggle, idx, total_lines, total_bytes,
                   handles, out, err, exit, prev, joined>>

\* Faulty variant: the closure adds the lines to the counter they were
\* read from, not to the one it was given.
MergeLinesIntoOwn(d) ==
    /\ strategy \in Concurrent
    /\ exit = "running"
    /\ pc[d] = "merge_lines"
    /\ ~lines_locked[d]
    /\ total_lines' = [total_lines EXCEPT ![d] = @ + res[d].lines]
    /\ pc' = [pc EXCEPT ![d] = "merge_bytes"]
    /\ UNCHANGED <<input, cli, arg, shown, strategy, byte_toggle, idx, total_bytes,
                   lines_locked, bytes_locked, handles, res, out, err, exit, prev,
                   joined>>

\* In the spawned closure: *total_lines.lock().unwrap() += lines;
MergeLines(d) ==
    /\ strategy \in Concurrent
    /\ exit = "running"
    /\ pc[d] = "merge_lines"
    /\ ~lines_locked[Parent(d)]
    /\ total_lines' = [total_lines EXCEPT ![Parent(d)] = @ + res[d].lines]
    /\ pc' = [pc EXCEPT ![d] = "merge_bytes"]
    /\ UNCHANGED <<input, cli, arg, shown, strategy, byte_toggle, idx, total_bytes, lines_locked,
                   bytes_locked, handles, res, out, err, exit, prev, joined>>

\* In the spawned closure: *total_bytes.lock().unwrap() += bytes; the thread ends.
MergeBytes(d) ==
    /\ strategy \in Concurrent
    /\ exit = "running"
    /\ pc[d] = "merge_bytes"
    /\ ~bytes_locked[Parent(d)]
    /\ total_bytes' = [total_bytes EXCEPT ![Parent(d)] = @ + res[d].bytes]
    /\ pc' = [pc EXCEPT ![d] = "finished"]
    /\ UNCHANGED <<input, cli, arg, shown, strategy, byte_toggle, idx, total_lines, lines_locked,
                   bytes_locked, handles, res, out, err, exit, prev, joined>>

\* The digits after the decimal point of r / den, den a power of ten and
\* r < den: the shortest decimal, which is what Display prints for an f64.
RECURSIVE FracDigits(_, _)
FracDigits(r, den) ==
    IF r = 0 THEN <<>>
    ELSE <<r \div (den \div 10)>> \o FracDigits(r % (den \div 10), den \div 10)

\* format!("{} KB", byte_count as f64 / den): the text before the unit.
Quotient(byte_count, den) ==
    [whole |-> byte_count \div den, frac |-> FracDigits(byte_count % den, den)]

\* format_byte_count: "/" on u128 is the integer division.
format_byte_count(byte_count) ==
    IF byte_count \div 1000000000 > 1
    THEN [unit |-> "GB", num |-> Quotient(byte_count, 1000000000)]
    ELSE IF byte_count \div 1000000 > 1
    THEN [unit |-> "MB", num |-> Quotient(byte_count, 1000000)]
    ELSE IF byte_count \div 1000 > 1
    THEN [unit |-> "KB", num |-> Quotient(byte_count, 1000)]
    ELSE [unit |-> "B", num |-> [whole |-> byte_count, frac |-> <<>>]]

\* format_and_print_results: the Lines and the Bytes row of the box.
format_and_print_results(lines, bytes) ==
    [tag |-> "summary", lines |-> lines, f_bytes |-> format_byte_count(bytes)]

\* main: "let (lines, bytes) = linecount_async(path, false)?;" and the
\* summary, or the error or the panic ends the process; its other threads
\* end with it.
Exit ==
    /\ strategy # "linecount"
    /\ exit = "running"
    /\ pc[Root] \in {"done", "panicked"}
    /\ exit' = IF res[Root].st = "ok" THEN "success" ELSE "failure"
    /\ shown' = IF res[Root].st = "ok"
                THEN format_and_print_results(res[Root].lines, res[Root].bytes)
                ELSE shown
    /\ UNCHANGED <<input, cli, arg, strategy, byte_toggle, pc, idx, total_lines, total_bytes,
                   lines_locked, bytes_locked, handles, res, out, err, prev, joined>>

\* The run is over.
Finished == IF strategy # "linecount" THEN exit # "running" ELSE pc[Root] = "done"

\* Another run of a concurrent strategy on the same tree, with the same
\* root path.  What the run before returned is kept, and what it printed
\* when the printing strategy runs again.
Rerun ==
    /\ Finished
    /\ cli' \in Flags
    /\ strategy' = main_strategy(cli')
    /\ strategy' \in Concurrent
    /\ prev' = [strategy |-> strategy, res |-> res[Root],
                out |-> IF strategy' = "linecount_visual_async" THEN out ELSE <<>>]
    /\ byte_toggle' = byte_toggle
    /\ pc' = StartPc
    /\ idx' = Zero
    /\ total_lines' = Zero
    /\ total_bytes' = Zero
    /\ lines_locked' = Unlocked
    /\ bytes_locked' = Unlocked
    /\ handles' = NoHandles
    /\ joined' = Zero
    /\ res' = NoResults
    /\ out' = <<>>
    /\ err' = <<>>
    /\ exit' = "running"
    /\ shown' = NoShown
    /\ UNCHANGED <<input, arg>>

-----------------------------------------------------------------------------
\* linecount_display: the walker that prints the tree on one thread.  The
\* call on a subdirectory runs to its end inside the caller's loop.

\* if let Ok((lines, bytes)) = linecount_display(..) { total_lines += lines;
\* total_bytes += bytes; }: an Err is dropped without a word.
LdReturn(d, r) ==
    IF d = Root
    THEN /\ pc' = [pc EXCEPT ![d] = "done"]
         /\ res' = [res EXCEPT ![d] = r]
         /\ UNCHANGED <<idx, total_lines, total_bytes>>
    ELSE /\ pc' = [pc EXCEPT ![d] = "done", ![Parent(d)] = "loop"]
         /\ res' = [res EXCEPT ![d] = r]
         /\ idx' = [idx EXCEPT ![Parent(d)] = @ + 1]
         /\ total_lines' = [total_lines EXCEPT ![Parent(d)] =
                               IF r.st = "ok" THEN @ + r.lines ELSE @]
         /\ total_bytes' = [total_bytes EXCEPT ![Parent(d)] =
                               IF r.st = "ok" THEN @ + r.bytes ELSE @]

\* A panic in the call on d: it is on the main thread and unwinds the calls
\* d was made from.
LdPanics(d) ==
    /\ pc' = [n \in Nodes |-> IF n = d \/ pc[n] = "call" THEN "panicked" ELSE pc[n]]
    /\ res' = [n \in Nodes |-> IF n = d \/ pc[n] = "call" THEN Panic ELSE res[n]]
    /\ err' = Append(err, [kind |-> "panic", node |-> d])

\* From the start of the function to the for loop: file_name().unwrap(),
\* the header line, fs::read_dir(dir_path).expect(..).
LdEnter(d) ==
    /\ strategy = "linecount_display"
    /\ pc[d] = "start"
    /\ IF ~file_name_is_some(d)
       THEN LdPanics(d) /\ UNCHANGED <<out, idx>>
       ELSE /\ out' = Append(out, [kind |-> "header", node |-> d])
            /\ IF can_list(d)
               THEN /\ pc' = [pc EXCEPT ![d] = "loop"]
                    /\ idx' = [idx EXCEPT ![d] = 1]
                    /\ UNCHANGED <<res, err>>
               ELSE LdPanics(d) /\ UNCHANGED idx
    /\ UNCHANGED <<input, cli, arg, shown, strategy, byte_toggle, total_lines,
                   total_bytes, lines_locked, bytes_locked, handles, exit, prev,
                   joined>>

\* One pass of the for loop over sorted_entries.
LdEntry(d) ==
    /\ strategy = "linecount_display"
    /\ pc[d] = "loop"
    /\ idx[d] <= Len(Entries(d))
    /\ LET e == Entries(d)[idx[d]]
       IN  CASE fs[e].kind = "broken" ->
                  LdReturn(d, Err) /\ UNCHANGED out
             [] is_file(e) /\ ~fs[e].ok ->
                  LdReturn(d, Err) /\ UNCHANGED out
             [] is_file(e) /\ fs[e].ok ->
                  /\ total_lines' = [total_lines EXCEPT ![d] = @ + file_linecount(e)]
                  /\ total_bytes' = [total_bytes EXCEPT ![d] = @ + file_bytes(e)]
                  /\ out' = Append(out, [kind |-> "file", node |-> e])
                  /\ idx' = [idx EXCEPT ![d] = @ + 1]
                  /\ UNCHANGED <<pc, res>>
             [] is_dir(e) ->
                  /\ pc' = [pc EXCEPT ![d] = "call", ![e] = "start"]
                  /\ UNCHANGED <<idx, total_lines, total_bytes, res, out>>
             [] OTHER ->
                  /\ idx' = [idx EXCEPT ![d] = @ + 1]
                  /\ UNCHANGED <<pc, total_lines, total_bytes, res, out>>
    /\ UNCHANGED <<input, cli, arg, shown, strategy, byte_toggle, lines_locked,
                   bytes_locked, handles, err, exit, prev, joined>>

\* Ok((total_lines, total_bytes))
LdFinish(d) ==
    /\ strategy = "linecount_display"
    /\ pc[d] = "loop"
    /\ idx[d] > Len(Entries(d))
    /\ LdReturn(d, Ok(total_lines[d], total_bytes[d]))
    /\ UNCHANGED <<input, cli, arg, shown, strategy, byte_toggle, lines_locked,
                   bytes_locked, handles, out, err, exit, prev, joined>>

\* The steps of linecount_display.
LdStep ==
    \/ \E d \in Nodes : LdEnter(d)
    \/ \E d \in Nodes : LdEntry(d)
    \/ \E d \in Nodes : LdFinish(d)

\* The steps of linecount.
LcStep ==
    \/ \E d \in Nodes : LcStart(d)
    \/ \E d \in Nodes : LcEntry(d)
    \/ \E d \in Nodes : LcFinish(d)

\* The steps of the threads of linecount_async and linecount_visual_async.
ThreadStep ==
    \/ \E d \in Nodes : Enter(d)
    \/ \E d \in Nodes : Entry(d)
    \/ \E d \in Nodes : AddLines(d)
    \/ \E d \in Nodes : AddBytes(d)
    \/ \E d \in Nodes : PrintFile(d)
    \/ \E d \in Nodes : Join(d)
    \/ \E d \in Nodes : GetTotalsLines(d)
    \/ \E d \in Nodes : GetTotalsBytes(d)
    \/ \E d \in Nodes : MergeLines(d)
    \/ \E d \in Nodes : MergeBytes(d)
    \/ Exit

Next == LcStep \/ LdStep \/ ThreadStep

\* One run of one strategy on any tree.
Spec == Init /\ [][Next]_vars

\* A tree without permission errors or dangling names.
Readable(t) ==
    \A n \in Nodes : t[n].ok /\ t[n].kind # "broken"

InitReadable == Init /\ Readable(fs) /\ strategy \in Concurrent

NextRerun == ThreadStep \/ Rerun

\* Runs of the concurrent strategies, one after the other, on one unchanged
\* tree without errors.
SpecRerun == InitReadable /\ [][NextRerun]_vars

\* The steps of the thread that runs the invocation of d.
Thread(d) ==
    \/ Enter(d) \/ Entry(d) \/ AddLines(d) \/ AddBytes(d) \/ PrintFile(d)
    \/ Join(d) \/ GetTotalsLines(d) \/ GetTotalsBytes(d)
    \/ MergeLines(d) \/ MergeBytes(d)

\* The operating system's scheduler lets every thread that can run take
\* its next step.
Fairness == (\A d \in Nodes : WF_vars(Thread(d))) /\ WF_vars(Exit)

\* One run of a concurrent strategy on a tree without errors, fairly
\* scheduled.
SpecFair == InitReadable /\ [][ThreadStep]_vars /\ Fairness

-----------------------------------------------------------------------------
\* Content::content_type and format_byte_count, applied to one argument.

code_extensions ==
    {"c", "h", "cpp", "hpp", "cc", "cxx", "hh", "hxx", "cs",
     "java", "class", "jar", "kt", "kts", "js", "jsx", "mjs", "cjs", "ts",
     "tsx", "py", "pyc", "pyd", "pyo", "rb", "erb", "php", "phar", "go",
     "rs", "rlib", "swift", "dart", "scala", "lua", "r", "pl", "pm", "sql",
     "html", "htm", "xhtml", "xml", "css", "scss", "sass", "json", "yaml",
     "yml", "toml", "env", "ini", "cfg", "md", "rst", "cmake", "mk",
     "dockerfile", "dockerignore", "gitignore", "gitattributes"}

media_extensions ==
    {"png", "jpg", "jpeg", "gif", "bmp", "tiff", "tif",
     "webp", "svg", "ico", "heic", "avif", "mp3", "wav", "flac", "aac",
     "ogg", "opus", "m4a", "wma", "aiff", "alac", "amr", "mp4", "mkv", "avi",
     "mov", "wmv", "flv", "webm", "m4v", "mpeg", "mpg", "3gp", "ogv"}

executable_extensions ==
    {"exe", "bat", "cmd", "msi", "run", "out", "bin",
     "app", "jar", "sh", "bash", "zsh", "ps1", "psm1", "psd1"}

text_extensions ==
    {"txt", "md", "rtf", "csv", "log", "pdf", "doc", "docx",
     "odt", "tex", "pages"}

\* An extension that is not valid UTF-8, and a path without a final name
\* ("..", "/").
NonUtf8 == "\\xFF"
NoName == ""

\* A path as content_type sees it: the stem and the extension of its file
\* name ("" for none), whether fs::metadata succeeds on it, and whether one
\* of its mode bits 0o111 is set.
Extensions ==
    code_extensions \cup media_extensions \cup executable_extensions
      \cup text_extensions \cup {"", "dat", NonUtf8}
Stems == {"LICENSE", "Makefile", "notes", "script", NoName}
Paths ==
    {p \in [stem : Stems, ext : Extensions, meta : BOOLEAN, exec : BOOLEAN] :
        /\ p.stem = NoName => p.ext = ""
        /\ ~p.meta => ~p.exec}

\* Faulty variant: the permission bits are not looked at.
never_executable(p) == FALSE

\* is_unix_executable: metadata.permissions().mode() & 0o111 != 0
is_unix_executable(p) == p.exec

\* Path::file_name() == name
file_name_eq(p, name) == p.ext = "" /\ p.stem = name

\* content_type.  "a || b && !c" is a || (b && !c); to_str().unwrap(),
\* is_unix_executable().unwrap() and file_name().unwrap() panic on None or
\* Err.
content_type(p) ==
    IF p.ext = NonUtf8 THEN "panic"
    ELSE IF p.ext \in code_extensions THEN "CODE"
    ELSE IF p.ext \in media_extensions THEN "MEDIA"
    ELSE IF p.ext \in executable_extensions THEN "EXECUTABLE"
    ELSE IF ~p.meta THEN "panic"
    ELSE IF is_unix_executable(p) /\ p.ext \notin text_extensions THEN "EXECUTABLE"
    ELSE IF p.ext \in text_extensions THEN "TEXT"
    ELSE IF p.stem = NoName THEN "panic"
    ELSE IF file_name_eq(p, "LICENSE") THEN "LICENSE"
    ELSE IF file_name_eq(p, "Makefile") THEN "MAKEFILE"
    ELSE "NORMAL"

\* The byte counts tried: around every multiple of a unit up to MaxUnits of
\* it, and around one and two GB (u128 in the program; kept below 2^31).
Offsets == {-1, 0, 1, 500}
ByteCounts ==
    {b \in {k * u + o : k \in 0..MaxUnits, u \in {1000, 1000000}, o \in Offsets}
             \cup {k * 1000000000 + o : k \in 1..2, o \in Offsets} : b >= 0}

Args ==
    {[fn |-> "format_byte_count", byte_count |-> b] : b \in ByteCounts}
      \cup {[fn |-> "content_type", path |-> p] : p \in Paths}

\* No traversal runs.
InitPure ==
    /\ arg \in Args
    /\ shown = NoShown
    /\ fs = [n \in Nodes |-> IF n = Root THEN Dir ELSE NoEntry]
    /\ rev = FALSE
    /\ root_named = TRUE
    /\ cli = NoCli
    /\ strategy = "none"
    /\ byte_toggle = TRUE
    /\ prev = NoPrev
    /\ pc = [n \in Nodes |-> "idle"]
    /\ idx = Zero
    /\ total_lines = Zero
    /\ total_bytes = Zero
    /\ lines_locked = Unlocked
    /\ bytes_locked = Unlocked
    /\ handles = NoHandles
    /\ joined = Zero
    /\ res = NoResults
    /\ out = <<>>
    /\ err = <<>>
    /\ exit = "running"

\* let f_bytes = format_byte_count(bytes);
FormatByteCount ==
    /\ arg.fn = "format_byte_count"
    /\ shown = NoShown
    /\ shown' = [tag |-> "f_bytes", f_bytes |-> format_byte_count(arg.byte_count)]
    /\ UNCHANGED <<input, cli, arg, strategy, byte_toggle, pc, idx, total_lines,
                   total_bytes, lines_locked, bytes_locked, handles, joined, res,
                   out, err, exit, prev>>

\* match path.content_type() { .. }
ContentType ==
    /\ arg.fn = "content_type"
    /\ shown = NoShown
    /\ shown' = [tag |-> "content_type", type |-> content_type(arg.path)]
    /\ UNCHANGED <<input, cli, arg, strategy, byte_toggle, pc, idx, total_lines,
                   total_bytes, lines_locked, bytes_locked, handles, joined, res,
                   out, err, exit, prev>>

NextPure == FormatByteCount \/ ContentType

\* One function applied to one argument.
SpecPure == InitPure /\ [][NextPure]_vars

-----------------------------------------------------------------------------
\* Reference totals, computed on the tree alone.

\* The sum of f over the set S.
RECURSIVE SumOver(_, _)
SumOver(S, f) == IF S = {} THEN 0
                 ELSE LET x == CHOOSE y \in S : TRUE
                      IN  f[x] + SumOver(S \ {x}, f)

\* The lines below directory d: its files' line counts and its
\* subdirectories' totals; an empty directory has 0.
RECURSIVE TreeLines(_)
TreeLines(d) ==
    SumOver(Children(d),
            [c \in Children(d) |-> IF is_file(c) THEN file_linecount(c)
                                   ELSE IF is_dir(c) THEN TreeLines(c) ELSE 0])

RECURSIVE TreeBytes(_)
TreeBytes(d) ==
    SumOver(Children(d),
            [c \in Children(d) |-> IF is_file(c) THEN file_bytes(c)
                                   ELSE IF is_dir(c) THEN TreeBytes(c) ELSE 0])

Counted == strategy \in Concurrent \/ byte_toggle

-----------------------------------------------------------------------------
\* C1 (as amended).  Additivity: on a tree without errors, whatever strategy
\* runs and however its threads interleave, the pair an invocation returns
\* for a directory is the sum over the directory's entries of the file's
\* (line count, byte length) and of the pair returned for the subdirectory;
\* so it is the total of the subtree, every file once, an empty directory
\* (0, 0).  In linecount the byte length counts only under byte_toggle, and
\* the bytes are 0 without it.
C1_Additivity ==
    Readable(fs) =>
      \A d \in Nodes :
        res[d].st = "ok" =>
          LET LinesPart == [c \in Children(d) |->
                              IF is_file(c) THEN file_linecount(c)
                              ELSE IF is_dir(c) THEN res[c].lines ELSE 0]
              BytesPart == [c \in Children(d) |->
                              IF is_file(c) THEN (IF Counted THEN file_bytes(c) ELSE 0)
                              ELSE IF is_dir(c) THEN res[c].bytes ELSE 0]
          IN  /\ \A c \in Children(d) : is_dir(c) => res[c].st = "ok"
              /\ res[d].lines = SumOver(Children(d), LinesPart)
              /\ res[d].bytes = SumOver(Children(d), BytesPart)
              /\ res[d].lines = TreeLines(d)
              /\ res[d].bytes = (IF Counted THEN TreeBytes(d) ELSE 0)

\* C1 as stated: every file contributes its byte length in every strategy.
C1_AsStated ==
    Readable(fs) =>
      \A d \in Nodes :
        res[d].st = "ok" => res[d].lines = TreeLines(d) /\ res[d].bytes = TreeBytes(d)

\* A concurrent run on a tree with a file two levels down has returned.
C1_Witness ==
    /\ Readable(fs)
    /\ strategy \in Concurrent
    /\ res[Root].st = "ok"
    /\ \E d \in Children(Root) :
          /\ is_dir(d) /\ res[d].st = "ok" /\ res[d].bytes > res[d].lines
          /\ res[Root].lines > res[d].lines
          /\ \E c \in Children(d) : is_dir(c) /\ res[c].st = "ok"

\* C2.  Strategy equivalence: on one unchanged tree without errors, a
\* finished run of one strategy and the finished run of another strategy
\* before it have both returned Ok, with the same lines and the same bytes.
C2_Equivalence ==
    (Finished /\ prev.strategy \in Strategies /\ prev.strategy # strategy) =>
      /\ res[Root].st = "ok"
      /\ prev.res.st = "ok"
      /\ res[Root].lines = prev.res.lines
      /\ res[Root].bytes = prev.res.bytes

\* C3.  Schedule independence: on one unchanged tree without errors, a
\* finished run of a concurrent strategy has the outcome of the run of the
\* same strategy before it, whatever the two interleavings and join orders
\* were; the outcome is also the one the tree fixes.
C3_ScheduleIndependent ==
    (Finished /\ strategy \in Concurrent) =>
      /\ prev.strategy = strategy => res[Root] = prev.res
      /\ res[Root].st = "ok" => res[Root] = Ok(TreeLines(Root), TreeBytes(Root))

\* The second of two runs of a concurrent strategy has returned, on a tree
\* with two subdirectories that both hold a file.
C3_Witness ==
    /\ Finished
    /\ strategy \in Concurrent
    /\ prev.strategy = strategy
    /\ res[Root].st = "ok"
    /\ \A d \in Children(Root) : is_dir(d)
    /\ \E d \in Children(Root) :
          \A c \in Children(d) : is_file(c) /\ file_linecount(c) > 0

\* C4.  Error recovery of linecount: in the step in which the recursive
\* call on subdirectory c returns Err, the caller writes one diagnostic
\* naming c, leaves its two totals as they were, has not failed, and is at
\* the next entry of its loop; and an invocation returns Err only for its
\* own listing or one of its own entries, so that one whose subdirectories
\* fail still returns Ok, with the sum of its files and of the
\* subdirectories that returned Ok.
C4_Skips ==
    \A c \in Nodes \ {Root} :
      (strategy = "linecount" /\ res[c].st = "none" /\ res'[c].st = "err") =>
        /\ err' = Append(err, [kind |-> "skip", node |-> c])
        /\ total_lines'[Parent(c)] = total_lines[Parent(c)]
        /\ total_bytes'[Parent(c)] = total_bytes[Parent(c)]
        /\ res'[Parent(c)].st = "none"
        /\ pc'[Parent(c)] = "loop"
        /\ idx'[Parent(c)] = idx[Parent(c)] + 1

C4_StillOk ==
    strategy = "linecount" =>
      \A d \in Nodes :
        /\ res[d].st = "err" =>
             \/ ~can_list(d)
             \/ \E e \in Children(d) :
                   fs[e].kind = "broken" \/ (is_file(e) /\ ~fs[e].ok)
        /\ res[d].st = "ok" =>
             /\ res[d].lines =
                  SumOver(Children(d),
                          [e \in Children(d) |->
                              IF is_file(e) THEN file_linecount(e)
                              ELSE IF res[e].st = "ok" THEN res[e].lines ELSE 0])
             /\ \A e \in Children(d) :
                  (is_dir(e) /\ res[e].st = "err") =>
                     Len(SelectSeq(err, LAMBDA m : m = [kind |-> "skip", node |-> e])) = 1

C4_Recovery == [][C4_Skips]_vars /\ []C4_StillOk

\* A directory has returned Ok with lines of its own although the call on
\* one of its subdirectories failed.
C4_Witness ==
    /\ strategy = "linecount"
    /\ \E c \in Nodes \ {Root} :
          /\ res[c].st = "err"
          /\ res[Parent(c)].st = "ok"
          /\ res[Parent(c)].lines > 0

\* C5.  Concurrent strategies, a descendant that cannot be listed (and
\* nothing else wrong with the tree): when the run is over nothing was
\* written to stderr, no thread has panicked, and the process has ended in
\* success with the total of all the entries outside the unlistable
\* directories.
OnlyUnlistableBelow ==
    /\ can_list(Root)
    /\ root_named
    /\ \E d \in Nodes \ {Root} : is_dir(d) /\ ~can_list(d)
    /\ \A n \in Nodes : fs[n].kind # "broken" /\ (is_file(n) => fs[n].ok)

C5_SilentDrop ==
    (strategy \in Concurrent /\ OnlyUnlistableBelow /\ Finished) =>
      /\ err = <<>>
      /\ \A d \in Nodes : pc[d] # "panicked"
      /\ exit = "success"
      /\ res[Root] = Ok(TreeLines(Root), TreeBytes(Root))

\* C6.  A root that cannot be listed: no strategy ever returns a total, the
\* finished call has returned Err or panicked, and the process main runs it
\* in ends in failure.
C6_RootFatal ==
    ~fs[Root].ok =>
      /\ res[Root].st # "ok"
      /\ exit # "success"
      /\ Finished =>
           /\ res[Root].st \in {"err", "panic"}
           /\ strategy \in Concurrent => exit = "failure"

\* The process has ended on a root that cannot be listed.
C6_Witness ==
    /\ ~fs[Root].ok
    /\ strategy = "linecount_async"
    /\ Finished
    /\ exit = "failure"

\* The total of the readable files reachable from d through listable
\* directories.
RECURSIVE ReadableLines(_)
ReadableLines(d) ==
    IF ~can_list(d) THEN 0
    ELSE SumOver(Children(d),
                 [c \in Children(d) |->
                     IF is_file(c) THEN (IF fs[c].ok THEN file_linecount(c) ELSE 0)
                     ELSE IF is_dir(c) THEN ReadableLines(c) ELSE 0])

\* C7.  Coverage of linecount: whenever the root can be listed the call
\* returns Ok, and its lines are those of all the readable files reachable
\* through listable directories.
C7_Coverage ==
    (strategy = "linecount" /\ can_list(Root) /\ pc[Root] = "done") =>
      /\ res[Root].st = "ok"
      /\ res[Root].lines = ReadableLines(Root)

\* C8.  Join barrier: once a concurrent invocation has returned (Ok or Err),
\* every thread it spawned has ended.  Stated for the trees all of whose
\* directories can be listed, on which no thread panics.
C8_JoinBarrier ==
    (strategy \in Concurrent /\ \A n \in Nodes : is_dir(n) => can_list(n)) =>
      \A d \in Nodes :
        res[d].st \in {"ok", "err"} =>
          \A i \in 1..Len(handles[d]) : Ended(handles[d][i])

\* How often line m was printed.
Printed(m) == Len(SelectSeq(out, LAMBDA x : x = m))

\* C9.  Emission count of linecount_visual_async: when the call on a tree
\* without errors has returned Ok, stdout holds one header line for every
\* directory of the tree, the root included, one file line for every
\* regular file, and no other line.
C9_EmissionCount ==
    (strategy = "linecount_visual_async" /\ Readable(fs) /\ res[Root].st = "ok") =>
      /\ \A n \in Nodes :
            /\ Printed([kind |-> "header", node |-> n]) = (IF is_dir(n) THEN 1 ELSE 0)
            /\ Printed([kind |-> "file", node |-> n]) = (IF is_file(n) THEN 1 ELSE 0)
      /\ Len(out) = Cardinality({n \in Nodes : is_dir(n) \/ is_file(n)})

\* The visual walker has returned on a tree with two subdirectories and
\* two files.
C9_Witness ==
    /\ strategy = "linecount_visual_async"
    /\ Readable(fs)
    /\ res[Root].st = "ok"
    /\ Cardinality({n \in Nodes : is_dir(n)}) >= 3
    /\ Cardinality({n \in Nodes : is_file(n)}) >= 2

\* The directory whose invocation prints line m.
Owner(m) == IF m.kind = "header" THEN m.node ELSE Parent(m.node)

RECURSIVE IsAncestor(_, _)
IsAncestor(a, n) == n # Root /\ (Parent(n) = a \/ IsAncestor(a, Parent(n)))

\* Directories a and b lie in the subtrees of two different siblings.
Apart(a, b) == a # b /\ ~IsAncestor(a, b) /\ ~IsAncestor(b, a)

\* C10.  The order of the visual walker's output is not fixed: two finished
\* runs on one tree can print different sequences of lines.  When they do,
\* they print the same lines, and where the sequences first differ stand
\* lines of two directories that lie in the subtrees of different siblings:
\* the runs differ by how sibling subtrees interleave.
C10_OrderVaries ==
    (/\ Finished
     /\ strategy = "linecount_visual_async" /\ prev.strategy = strategy
     /\ res[Root].st = "ok" /\ prev.res.st = "ok"
     /\ out # prev.out) =>
       /\ Len(out) = Len(prev.out)
       /\ Range(out) = Range(prev.out)
       /\ LET k == CHOOSE i \in 1..Len(out) :
                      /\ out[i] # prev.out[i]
                      /\ \A j \in 1..(i - 1) : out[j] = prev.out[j]
          IN  Apart(Owner(out[k]), Owner(prev.out[k]))

\* Two finished runs of the visual walker, on a tree whose root has two
\* subdirectories, have printed different sequences.
C10_Witness ==
    /\ Finished
    /\ strategy = "linecount_visual_async" /\ prev.strategy = strategy
    /\ res[Root].st = "ok" /\ prev.res.st = "ok"
    /\ \A d \in Children(Root) : is_dir(d)
    /\ out # prev.out

\* C11.  Strategy selection by main: every run made from the command line
\* is a run of one traversal function; with --display (-d) or with
\* --test-async it is linecount_visual_async, whose invocations spawn a
\* thread for every subdirectory, and without a flag it is linecount_async.
C11_Selection ==
    cli \in Flags =>
      /\ strategy \in Strategies
      /\ (cli.display \/ cli.test_async) => strategy = "linecount_visual_async"
      /\ (~cli.display /\ ~cli.test_async) => strategy = "linecount_async"
      /\ \A d \in Nodes :
            (pc[d] = "loop" /\ idx[d] > 1 /\ is_dir(Entries(d)[idx[d] - 1])) =>
               Entries(d)[idx[d] - 1] \in Range(handles[d])

\* C12.  Unit selection of format_byte_count: the count is shown in the
\* largest of GB, MB, KB (steps of 1000) of which it is strictly more than
\* one, else in bytes, as the decimal quotient; so 999 is "999 B", 1500 is
\* "1.5 KB", 2000000 is "2 MB" and 1000 is "1000 B".
C12_UnitSelection ==
    shown.tag = "f_bytes" =>
      LET b == arg.byte_count
          f == shown.f_bytes
      IN  /\ f = (IF b > 1000000000 THEN [unit |-> "GB", num |-> Quotient(b, 1000000000)]
                  ELSE IF b > 1000000 THEN [unit |-> "MB", num |-> Quotient(b, 1000000)]
                  ELSE IF b > 1000 THEN [unit |-> "KB", num |-> Quotient(b, 1000)]
                  ELSE [unit |-> "B", num |-> [whole |-> b, frac |-> <<>>]])
          /\ b = 999 => f = [unit |-> "B", num |-> [whole |-> 999, frac |-> <<>>]]
          /\ b = 1500 => f = [unit |-> "KB", num |-> [whole |-> 1, frac |-> <<5>>]]
          /\ b = 2000000 => f = [unit |-> "MB", num |-> [whole |-> 2, frac |-> <<>>]]
          /\ b = 1000 => f = [unit |-> "B", num |-> [whole |-> 1000, frac |-> <<>>]]

\* C13.  Classification precedence: content_type returns one tag for every
\* path, that of the first rule that matches: CODE extension, MEDIA
\* extension, EXECUTABLE (executable extension, or an executable permission
\* bit and no TEXT extension), TEXT extension, the name LICENSE, the name
\* Makefile, else NORMAL.
C13_Precedence ==
    shown.tag = "content_type" =>
      LET p == arg.path
      IN  shown.type =
            (IF p.ext \in code_extensions THEN "CODE"
             ELSE IF p.ext \in media_extensions THEN "MEDIA"
             ELSE IF p.ext \in executable_extensions
                     \/ (p.exec /\ p.ext \notin text_extensions) THEN "EXECUTABLE"
             ELSE IF p.ext \in text_extensions THEN "TEXT"
             ELSE IF p.stem = "LICENSE" /\ p.ext = "" THEN "LICENSE"
             ELSE IF p.stem = "Makefile" /\ p.ext = "" THEN "MAKEFILE"
             ELSE "NORMAL")

\* The three named files, with and without an executable permission bit.
Named(stem, ext, exec) == [stem |-> stem, ext |-> ext, meta |-> TRUE, exec |-> exec]

\* C14 (as amended).  The named cases: Makefile (no extension) without an
\* executable bit is MAKEFILE and with one EXECUTABLE; script.sh with the
\* executable bit is EXECUTABLE; notes.txt with the executable bit is TEXT.
C14_NamedCases ==
    shown.tag = "content_type" =>
      /\ arg.path = Named("Makefile", "", FALSE) => shown.type = "MAKEFILE"
      /\ arg.path = Named("Makefile", "", TRUE) => shown.type = "EXECUTABLE"
      /\ arg.path = Named("script", "sh", TRUE) => shown.type = "EXECUTABLE"
      /\ arg.path = Named("notes", "txt", TRUE) => shown.type = "TEXT"

\* C14 as stated: Makefile is MAKEFILE whatever its permission bits.
C14_AsStated ==
    shown.tag = "content_type" =>
      /\ (\E x \in BOOLEAN : arg.path = Named("Makefile", "", x)) =>
            shown.type = "MAKEFILE"
      /\ arg.path = Named("script", "sh", TRUE) => shown.type = "EXECUTABLE"
      /\ arg.path = Named("notes", "txt", TRUE) => shown.type = "TEXT"

\* An executable Makefile has been classified.
C14_Witness ==
    /\ shown.tag = "content_type"
    /\ arg.path = Named("Makefile", "", TRUE)
    /\ shown.type = "EXECUTABLE"

\* C15.  Lock scope in the concurrent strategies: a step that changes a
\* counter finds its lock free and leaves it free (acquire, add, release
\* are one step); and whoever holds a lock is inside get_totals: it is not
\* in its entry loop, where it recurses through the threads it spawns, and
\* not at a join, and while it holds the lock it pushes no handle, starts
\* no invocation and joins nothing.
C15_Increment ==
    strategy \in Concurrent =>
      \A d \in Nodes :
        /\ total_lines'[d] # total_lines[d] => ~lines_locked[d] /\ ~lines_locked'[d]
        /\ total_bytes'[d] # total_bytes[d] => ~bytes_locked[d] /\ ~bytes_locked'[d]
        /\ (lines_locked[d] \/ bytes_locked[d]) =>
              /\ handles'[d] = handles[d]
              /\ joined'[d] = joined[d]
              /\ \A c \in Children(d) : pc'[c] = "start" => pc[c] = "start"

C15_Held ==
    strategy \in Concurrent =>
      \A d \in Nodes :
        (lines_locked[d] \/ bytes_locked[d]) =>
           /\ pc[d] = "get_totals"
           /\ joined[d] = Len(handles[d])
           /\ \A c \in Children(d) : pc[c] # "start"

C15_LockScope == [][C15_Increment]_vars /\ []C15_Held

\* A thread is inside get_totals, holding the lock of counters that its
\* own files and a subdirectory's thread have added to.
C15_Witness ==
    /\ strategy \in Concurrent
    /\ \E d \in Nodes \ {Root} :
          /\ lines_locked[d]
          /\ total_lines[d] > 0
          /\ \E e \in Children(Root) : pc[e] \in {"merge_bytes", "add_bytes"}

\* The lines and the bytes the entries of d have brought in: the files of
\* d and the subdirectories whose invocation returned Ok.
OwnLines(d) ==
    SumOver(Children(d),
            [c \in Children(d) |->
                IF is_file(c) THEN file_linecount(c)
                ELSE IF res[c].st = "ok" THEN res[c].lines ELSE 0])
OwnBytes(d) ==
    SumOver(Children(d),
            [c \in Children(d) |->
                IF is_file(c) THEN file_bytes(c)
                ELSE IF res[c].st = "ok" THEN res[c].bytes ELSE 0])

\* C16.  Consistent snapshot: when a concurrent invocation is in get_totals
\* or has returned a pair, its loop over the entries is over, it has
\* spawned a thread for each subdirectory and each of them has ended, past
\* both of its additions; the pair returned holds, for every file and every
\* subdirectory that returned Ok, both the lines and the bytes, and nothing
\* else: no pair with lines whose bytes are missing is returned.
C16_Snapshot ==
    strategy \in Concurrent =>
      \A d \in Nodes :
        (pc[d] = "get_totals" \/ res[d].st = "ok") =>
           /\ idx[d] > Len(Entries(d))
           /\ Range(handles[d]) = {c \in Children(d) : is_dir(c)}
           /\ \A h \in Range(handles[d]) : pc[h] = "finished"
           /\ total_lines[d] = OwnLines(d)
           /\ total_bytes[d] = OwnBytes(d)
           /\ res[d].st = "ok" => res[d] = Ok(OwnLines(d), OwnBytes(d))

\* One invocation has returned its pair while the counters of another are
\* half updated: a thread has added its lines to them and not yet its bytes.
C16_Witness ==
    /\ strategy \in Concurrent
    /\ \E d \in Nodes \ {Root} :
          /\ res[d].st = "ok" /\ res[d].lines > 0 /\ res[d].bytes > 0
          /\ \E c \in Children(d) : is_dir(c)
    /\ \E c \in Nodes \ {Root} :
          /\ pc[c] = "merge_bytes" /\ res[c].lines > 0 /\ res[c].bytes > 0
          /\ total_lines[Parent(c)] >= res[c].lines
          /\ total_bytes[Parent(c)] < res[c].bytes

\* The thread of d is at one of its lock() calls and the mutex is held:
\* it waits for a lock.
WaitsForLock(d) ==
    \/ pc[d] = "add_lines" /\ lines_locked[d]
    \/ pc[d] = "add_bytes" /\ bytes_locked[d]
    \/ AtJoin(d) /\ joined[d] = Len(handles[d]) /\ lines_locked[d]
    \/ pc[d] = "get_totals" /\ bytes_locked[d]
    \/ pc[d] = "merge_lines" /\ lines_locked[Parent(d)]
    \/ pc[d] = "merge_bytes" /\ bytes_locked[Parent(d)]

\* No thread ever waits for a lock, and the handle a thread waits for in
\* join() is that of a thread it spawned itself.
BlocksOnlyAtJoin ==
    \A d \in Nodes :
      /\ ~WaitsForLock(d)
      /\ Range(handles[d]) \subseteq Children(d)

\* C17.  Progress on a tree without errors, under fair scheduling: the
\* top-level invocation eventually returns its pair, every thread spawned
\* eventually ends with its invocation returned (so that no deadlock is
\* reachable), and a thread blocks only at its join, waiting for a thread
\* it spawned.
C17_Progress ==
    /\ <>(pc[Root] = "done" /\ res[Root].st = "ok")
    /\ \A d \in Nodes \ {Root} :
          (pc[d] = "start") ~> (pc[d] = "finished" /\ res[d].st = "ok")
    /\ []BlocksOnlyAtJoin

\* C17, for a root path that ends in a name: the same progress, and for
\* every root path the process ends.
C17_NamedRoot ==
    /\ root_named => <>(pc[Root] = "done" /\ res[Root].st = "ok")
    /\ <>(exit # "running")
    /\ \A d \in Nodes \ {Root} :
          (pc[d] = "start") ~> (pc[d] = "finished" /\ res[d].st = "ok")
    /\ []BlocksOnlyAtJoin

\* The subdirectories among the entries an invocation has been through.
DirsSeen(d) ==
    SelectSeq(SubSeq(Entries(d), 1, idx[d] - 1), LAMBDA e : fs[e].kind = "dir")

\* The directories below the root.
SubDirs == {n \in Nodes \ {Root} : fs[n].kind = "dir"}

\* C18.  Fan-out of the concurrent strategies: the handles of an invocation
\* are those of one thread for each subdirectory among the entries it has
\* been through, in their order, and of nothing else; a path has a thread
\* exactly when its parent spawned one for it, and a thread is started once;
\* when the run on a tree without errors has returned, the threads spawned
\* are as many as the directories below the root and each has run to its end.
C18_OnePerSubdir ==
    strategy \in Concurrent =>
      /\ \A d \in Nodes :
            /\ handles[d] = (IF idx[d] >= 1 THEN DirsSeen(d) ELSE <<>>)
            /\ d # Root => (pc[d] # "idle" <=> d \in Range(handles[Parent(d)]))
      /\ (Readable(fs) /\ res[Root].st = "ok") =>
            /\ SumOver(Nodes, [d \in Nodes |-> Len(handles[d])]) = Cardinality(SubDirs)
            /\ \A n \in SubDirs : pc[n] = "finished" /\ res[n].st = "ok"
            /\ \A n \in Nodes \ (SubDirs \cup {Root}) : pc[n] = "idle"

C18_StartedOnce ==
    strategy \in Concurrent =>
      \A c \in Nodes : (pc'[c] = "start" /\ pc[c] # "start") => pc[c] = "idle"

C18_FanOut == [][C18_StartedOnce]_vars /\ []C18_OnePerSubdir

\* A run has returned on a tree with a directory two levels down, a file
\* and an entry that is neither.
C18_Witness ==
    /\ strategy \in Concurrent
    /\ Readable(fs)
    /\ res[Root].st = "ok"
    /\ \E d \in SubDirs : Parent(d) \in SubDirs
    /\ \E n \in Nodes : is_file(n)
    /\ \E n \in Nodes : fs[n].kind = "other"

\* C19.  Rendering order inside one invocation of linecount_visual_async,
\* in every interleaving: the header of a directory is printed before its
\* file lines, its file lines are printed in ascending order of path, no
\* line of a directory below it is printed before one of its file lines,
\* and it spawns the threads of its subdirectories in ascending order of
\* path, after its last file line.
C19_RenderOrder ==
    strategy = "linecount_visual_async" =>
      /\ \A j \in 1..Len(out) :
            out[j].kind = "file" =>
              /\ \E i \in 1..(j - 1) :
                    out[i] = [kind |-> "header", node |-> Parent(out[j].node)]
              /\ \A i \in 1..(j - 1) :
                    /\ (out[i].kind = "file" /\ Parent(out[i].node) = Parent(out[j].node))
                          => out[i].node < out[j].node
                    /\ ~IsAncestor(Parent(out[j].node), Owner(out[i]))
      /\ \A d \in Nodes :
            /\ \A i, j \in 1..Len(handles[d]) : i < j => handles[d][i] < handles[d][j]
            /\ handles[d] # <<>> =>
                  \A f \in Children(d) :
                    (is_file(f) /\ fs[f].ok) => Printed([kind |-> "file", node |-> f]) = 1

\* The visual walker has returned on a tree whose root holds a
\* subdirectory with two files and, after it in the listing, a file.
C19_Witness ==
    /\ strategy = "linecount_visual_async"
    /\ res[Root].st = "ok"
    /\ is_dir(2) /\ is_file(3) /\ is_file(4) /\ is_file(5)
    /\ Len(out) = 5

\* C20 (as amended).  Accumulator lifecycle in the concurrent strategies:
\* every invocation, the top-level one and each recursive one, has counters
\* of its own, which are 0 when it starts; a counter of invocation p changes
\* only when the thread of p adds a file of p, or when the thread spawned
\* for a subdirectory c of p, its invocation returned, adds what it
\* returned (p itself only waits); and what an invocation returns is the
\* content of its own counters.
C20_Step ==
    strategy \in Concurrent =>
      \A p \in Nodes :
        /\ total_lines'[p] # total_lines[p] =>
              \/ /\ pc[p] = "add_lines" /\ pc'[p] = "add_bytes"
                 /\ total_lines'[p] = total_lines[p] + file_linecount(Entries(p)[idx[p]])
              \/ \E c \in Children(p) :
                    /\ pc[c] = "merge_lines" /\ pc'[c] = "merge_bytes"
                    /\ res[c].st = "ok"
                    /\ total_lines'[p] = total_lines[p] + res[c].lines
        /\ total_bytes'[p] # total_bytes[p] =>
              \/ /\ pc[p] = "add_bytes" /\ pc'[p] # "add_bytes"
                 /\ total_bytes'[p] = total_bytes[p] + file_bytes(Entries(p)[idx[p]])
              \/ \E c \in Children(p) :
                    /\ pc[c] = "merge_bytes" /\ pc'[c] = "finished"
                    /\ res[c].st = "ok"
                    /\ total_bytes'[p] = total_bytes[p] + res[c].bytes
        /\ (res[p].st = "none" /\ res'[p].st = "ok") =>
              res'[p] = Ok(total_lines[p], total_bytes[p])

C20_Fresh ==
    strategy \in Concurrent =>
      \A d \in Nodes :
        pc[d] \in {"idle", "start"} => total_lines[d] = 0 /\ total_bytes[d] = 0

C20_Lifecycle == [][C20_Step]_vars /\ []C20_Fresh

\* C20 as stated: one accumulator per top-level invocation, shared by all
\* the threads: no recursive invocation has counters of its own that count.
C20_AsStated ==
    strategy \in Concurrent =>
      \A d \in Nodes \ {Root} : total_lines[d] = 0 /\ total_bytes[d] = 0

\* The thread of a subdirectory has added what its invocation counted in
\* counters of its own to the counters of its parent, while the thread of
\* another subdirectory is still counting in its own.
C20_Witness ==
    /\ strategy \in Concurrent
    /\ \E c \in Nodes \ {Root} :
          /\ pc[c] = "finished"
          /\ res[c].st = "ok" /\ res[c].lines > 0
          /\ total_lines[c] = res[c].lines
          /\ total_lines[Parent(c)] = res[c].lines
          /\ total_bytes[Parent(c)] = res[c].bytes
    /\ \E e \in Nodes \ {Root} : pc[e] \in {"loop", "add_lines", "add_bytes"}

\* C21.  All-or-nothing contribution of a subdirectory, in every strategy:
\* the pair an invocation returns for P is the sum of P's files and, for
\* each subdirectory D, of the whole pair D's invocation returned, or of
\* nothing when it returned none; what an invocation that ended in an
\* error had counted before is in no returned total.
C21_AllOrNothing ==
    \A p \in Nodes :
      res[p].st = "ok" =>
        /\ \A d \in Children(p) : is_dir(d) => res[d].st \in {"ok", "err"}
        /\ res[p].lines =
              SumOver(Children(p),
                      [c \in Children(p) |->
                          IF is_file(c) THEN file_linecount(c)
                          ELSE IF is_dir(c) /\ res[c].st = "ok" THEN res[c].lines
                          ELSE 0])
        /\ res[p].bytes =
              SumOver(Children(p),
                      [c \in Children(p) |->
                          IF is_file(c) THEN (IF Counted THEN file_bytes(c) ELSE 0)
                          ELSE IF is_dir(c) /\ res[c].st = "ok" THEN res[c].bytes
                          ELSE 0])

\* A directory has returned its pair although the invocation of one of
\* its subdirectories, on a thread of its own, ended in an error after it
\* had counted a file.
C21_Witness ==
    \E d \in Nodes \ {Root} :
      /\ strategy \in Concurrent
      /\ res[d].st = "err"
      /\ total_lines[d] > 0
      /\ res[Parent(d)].st = "ok"
      /\ res[Parent(d)].lines > 0

\* The place of entry c in the loop of d.
Pos(d, c) == CHOOSE i \in 1..Len(Entries(d)) : Entries(d)[i] = c

\* The loop of d has added the lines (the bytes) of its file c.
LinesAdded(d, c) ==
    /\ is_file(c) /\ fs[c].ok /\ idx[d] >= 1
    /\ \/ Pos(d, c) < idx[d]
       \/ Pos(d, c) = idx[d] /\ pc[d] \in {"add_bytes", "print"}
BytesAdded(d, c) ==
    /\ is_file(c) /\ fs[c].ok /\ idx[d] >= 1
    /\ \/ Pos(d, c) < idx[d]
       \/ Pos(d, c) = idx[d] /\ pc[d] = "print"

\* What has been added to the counters of d so far, each file and each
\* returned pair once.
LinesSoFar(d) ==
    SumOver(Children(d),
            [c \in Children(d) |->
                IF LinesAdded(d, c) THEN file_linecount(c)
                ELSE IF is_dir(c) /\ res[c].st = "ok"
                        /\ pc[c] \in {"merge_bytes", "finished"} THEN res[c].lines
                ELSE 0])
BytesSoFar(d) ==
    SumOver(Children(d),
            [c \in Children(d) |->
                IF BytesAdded(d, c) THEN file_bytes(c)
                ELSE IF is_dir(c) /\ res[c].st = "ok" /\ pc[c] = "finished"
                THEN res[c].bytes
                ELSE 0])

\* C22.  Bounds of the counters in the concurrent strategies: in every
\* reachable state the two counters of an invocation hold what its loop
\* and the threads it spawned have added so far, each file and each
\* returned pair counted once, which is at most the total of the subtree;
\* and no step makes a counter smaller.
C22_Bounded ==
    strategy \in Concurrent =>
      \A d \in Nodes :
        /\ total_lines[d] = LinesSoFar(d)
        /\ total_bytes[d] = BytesSoFar(d)
        /\ total_lines[d] <= TreeLines(d)
        /\ total_bytes[d] <= TreeBytes(d)

C22_Monotone ==
    strategy \in Concurrent =>
      \A d \in Nodes :
        total_lines'[d] >= total_lines[d] /\ total_bytes'[d] >= total_bytes[d]

C22_Bounds == [][C22_Monotone]_vars /\ []C22_Bounded

\* The counters of the root hold a file of its own and the lines, not yet
\* the bytes, of a subdirectory, and are below the total of the tree.
C22_Witness ==
    /\ strategy \in Concurrent
    /\ \E f \in Children(Root) : LinesAdded(Root, f) /\ file_linecount(f) > 0
    /\ \E c \in Children(Root) :
          pc[c] = "merge_bytes" /\ res[c].lines > 0 /\ res[c].bytes > 0
    /\ total_lines[Root] = TreeLines(Root)
    /\ total_bytes[Root] < TreeBytes(Root)

====
